---- MODULE Spec2Model ----
(***************************************************************************)
(* Model of job-alert-bot (src/main.py): the poll loop main_loop with its  *)
(* fingerprint store (load_seen / save_seen), the listing fetcher          *)
(* parse_indeed_search, the filter filter_by_region_and_contract and the   *)
(* notifier send_telegram_message.                                         *)
(*                                                                         *)
(* Texts (title, company, location, summary, keywords) are sequences of    *)
(* one-character strings, so that Python's `in`, lower() and upper() are   *)
(* computed on characters.  Links, hrefs and ids are atomic strings.       *)
(* An optional value (None or a value v) is the sequence <<>> or <<v>>.    *)
(***************************************************************************)
EXTENDS Integers, Sequences, FiniteSets, TLC

(* ------------------------------ bounds -------------------------------- *)
\* number of entries of TITLES / BRETAGNE_CITIES the model runs through
NumTitles == 1
NumCities == 2
\* cards on one result page offered by the site
MaxCards == 2
\* poll cycles begun since the first start, and process restarts
MaxCycles == 2
MaxRestarts == 1
\* pages asked from parse_indeed_search when it is called on its own
MaxPages == 2

(* --------------------------- text primitives -------------------------- *)
UpperLetters == <<"A","B","C","D","E","F","G","H","I","J","K","L","M","N","O","P","Q","R","S","T","U","V","W","X","Y","Z","É">>
LowerLetters == <<"a","b","c","d","e","f","g","h","i","j","k","l","m","n","o","p","q","r","s","t","u","v","w","x","y","z","é">>

\* str.lower() on one character
LowerChar(c) ==
    IF \E i \in 1..Len(UpperLetters) : UpperLetters[i] = c
    THEN LowerLetters[CHOOSE i \in 1..Len(UpperLetters) : UpperLetters[i] = c]
    ELSE c

\* str.upper() on one character
UpperChar(c) ==
    IF \E i \in 1..Len(LowerLetters) : LowerLetters[i] = c
    THEN UpperLetters[CHOOSE i \in 1..Len(LowerLetters) : LowerLetters[i] = c]
    ELSE c

lower(s) == IF s = <<>> THEN <<>> ELSE [i \in 1..Len(s) |-> LowerChar(s[i])]
upper(s) == IF s = <<>> THEN <<>> ELSE [i \in 1..Len(s) |-> UpperChar(s[i])]

\* Python's `needle in hay` on strings
Contains(needle, hay) ==
    \E i \in 0..(Len(hay) - Len(needle)) : SubSeq(hay, i + 1, i + Len(needle)) = needle

\* s[:n]
Take(s, n) == SubSeq(s, 1, IF Len(s) < n THEN Len(s) ELSE n)

\* str.strip() of blanks
RECURSIVE StripLeft(_)
StripLeft(s) == IF s # <<>> /\ Head(s) = " " THEN StripLeft(Tail(s)) ELSE s
RECURSIVE StripRight(_)
StripRight(s) ==
    IF s # <<>> /\ s[Len(s)] = " " THEN StripRight(SubSeq(s, 1, Len(s) - 1)) ELSE s
Strip(s) == StripRight(StripLeft(s))

\* " ".join(parts)
RECURSIVE JoinSpace(_)
JoinSpace(parts) ==
    IF parts = <<>> THEN <<>>
    ELSE IF Len(parts) = 1 THEN parts[1]
    ELSE parts[1] \o <<" ">> \o JoinSpace(Tail(parts))

\* truthiness of an optional text: None and "" are falsy
Truthy(opt) == opt # <<>> /\ opt[1] # <<>>

(* ----------------------------- configuration -------------------------- *)
s_cdi == <<"c","d","i">>
s_cdd == <<"c","d","d">>
s_interim_acc == <<"i","n","t","é","r","i","m">>
s_interim == <<"i","n","t","e","r","i","m">>
s_teletravail_acc == <<"t","é","l","é","t","r","a","v","a","i","l">>
s_teletravail == <<"t","e","l","e","t","r","a","v","a","i","l">>
s_remote == <<"r","e","m","o","t","e">>
s_France == <<"F","r","a","n","c","e">>

ALL_TITLES ==
    << "opérateur de saisie", "opérateur saisie", "saisie de données",
       "saisie", "opérateur saisie", "data entry" >>
ALL_CITIES ==
    << <<"R","e","n","n","e","s">>, <<"N","a","n","t","e","s">>,
       <<"B","r","e","s","t">>,
       <<"S","a","i","n","t","-","B","r","i","e","u","c">>,
       <<"V","a","n","n","e","s">>, <<"L","o","r","i","e","n","t">>,
       <<"Q","u","i","m","p","e","r">>, <<"B","r","e","s","t">> >>

Min(a, b) == IF a < b THEN a ELSE b
TITLES == SubSeq(ALL_TITLES, 1, Min(NumTitles, Len(ALL_TITLES)))
BRETAGNE_CITIES == SubSeq(ALL_CITIES, 1, Min(NumCities, Len(ALL_CITIES)))
CONTRACT_KEYWORDS ==
    << <<"C","D","I">>, <<"C","D","D">>, <<"I","n","t","é","r","i","m">>,
       <<"I","n","t","e","r","i","m">>, <<"C","o","n","t","r","a","t">> >>

SeqToSet(s) == {s[i] : i \in 1..Len(s)}

(* ------------------------- ids and links ------------------------------ *)
\* urljoin("https://fr.indeed.com", href) on the hrefs the site serves: a
\* relative href is resolved against the base, an absolute one is kept.
\* "http://[" is a malformed href on which urljoin raises ValueError.
BadHrefs == {"http://["}
urljoin(href) ==
    CASE href = "/rc/1" -> "https://fr.indeed.com/rc/1"
      [] href = "/rc/2" -> "https://fr.indeed.com/rc/2"
      [] href = "/rc/3" -> "https://fr.indeed.com/rc/3"
      [] href = "/rc/4" -> "https://fr.indeed.com/rc/4"
      [] href = "/rc/5" -> "https://fr.indeed.com/rc/5"
      [] OTHER -> href

\* hashlib.sha1(link).hexdigest(): a fixed digest per link (first hex digits)
get_job_id_from_link(link) ==
    CASE link = "https://fr.indeed.com/rc/1" -> "5d1f"
      [] link = "https://fr.indeed.com/rc/2" -> "a07c"
      [] link = "https://fr.indeed.com/rc/3" -> "e3b9"
      [] link = "https://fr.indeed.com/rc/4" -> "0c42"
      [] link = "https://fr.indeed.com/rc/5" -> "77aa"
      [] OTHER -> "ffff"

\* the ids of the postings of the modelled site
Ids == {"5d1f", "a07c", "e3b9", "0c42", "77aa"}

(* ------------------------------ the site ------------------------------ *)
\* A listing fragment: the optional sub-elements the extractor looks for.
Card(h2, href, a, companyName, company, companyLocation, location, job_snippet, summary) ==
    [h2 |-> h2, href |-> href, a |-> a, companyName |-> companyName,
     company |-> company, companyLocation |-> companyLocation,
     location |-> location, job_snippet |-> job_snippet, summary |-> summary]

t_Saisie == <<"S","a","i","s","i","e">>
t_RemoteSaisie == <<"R","e","m","o","t","e"," ","s","a","i","s","i","e">>
t_Rennes == <<"R","e","n","n","e","s">>
t_RENNES_padded == <<" ","R","E","N","N","E","S"," ">>
t_Paris == <<"P","a","r","i","s">>
t_Lyon == <<"L","y","o","n">>
t_Acme == <<"A","c","m","e">>
t_TeletravailCDI == <<"T","é","l","é","t","r","a","v","a","i","l"," ","C","D","I">>
t_teletravail_plain == <<"t","e","l","e","t","r","a","v","a","i","l">>
t_DataEntry == <<"D","a","t","a"," ","e","n","t","r","y">>
t_Lille == <<"L","i","l","l","e">>
t_FullRemoteCDD == <<"F","u","l","l"," ","R","E","M","O","T","E"," ","c","d","d">>
\* a text longer than the title fallback keeps
LongLen == 90
t_Long == [n \in 1..LongLen |-> IF n % 7 = 0 THEN " " ELSE "x"]

\* in region, not remote, no contract word, relative link 1
card_rennes ==
    Card(<<t_Saisie>>, <<"/rc/1">>, <<>>, <<t_Acme>>, <<>>, <<t_Rennes>>, <<>>, <<>>, <<>>)
\* the same posting (absolute link 1) in the older markup: no <h2>, link on an
\* inner <a>, fallback classes; here the summary says it is remote
card_rennes_old ==
    Card(<<>>, <<>>, << <<"https://fr.indeed.com/rc/1">> >>, <<>>, <<>>, <<>>,
         <<t_RENNES_padded>>, <<>>, <<t_FullRemoteCDD>>)
\* out of region, remote marker and a contract word in the summary
card_remote ==
    Card(<<t_Saisie>>, <<"/rc/2">>, <<>>, <<>>, <<>>, <<t_Paris>>, <<>>,
         <<t_TeletravailCDI>>, <<>>)
\* out of region, the only remote marker is in the title
card_title_remote ==
    Card(<<t_RemoteSaisie>>, <<"/rc/3">>, <<>>, <<>>, <<>>, <<t_Paris>>, <<>>, <<>>, <<>>)
\* out of region, the only remote marker is the unaccented spelling
card_lyon ==
    Card(<<t_DataEntry>>, <<"/rc/4">>, <<>>, <<>>, <<>>, <<t_Lyon>>, <<>>,
         <<t_teletravail_plain>>, <<>>)
\* out of region, not remote
card_lille ==
    Card(<<t_Saisie>>, <<"/rc/5">>, <<>>, <<>>, <<>>, <<t_Lille>>, <<>>, <<>>, <<>>)
\* no link at all
card_nolink ==
    Card(<<t_Saisie>>, <<>>, <<>>, <<>>, <<>>, <<t_Rennes>>, <<>>, <<>>, <<>>)
\* a link on which urljoin raises
card_badlink ==
    Card(<<t_Saisie>>, <<"http://[">>, <<>>, <<>>, <<>>, <<t_Rennes>>, <<>>, <<>>, <<>>)

\* out of region, not remote, no <h2>, a long summary
card_long ==
    Card(<<>>, <<"/rc/5">>, <<>>, <<>>, <<>>, <<t_Lille>>, <<>>, <<t_Long>>, <<>>)

Cards ==
    { card_rennes, card_rennes_old, card_remote, card_title_remote, card_lyon,
      card_lille, card_nolink, card_badlink, card_long }

(* --------------------------- record extractor ------------------------- *)
\* c.get_text(" ", strip=True): the stripped, non-empty strings of the card
\* in document order, joined by one blank
NonEmptyTexts(opts) ==
    SelectSeq([i \in 1..Len(opts) |-> IF opts[i] = <<>> THEN <<>> ELSE Strip(opts[i][1])],
              LAMBDA t : t # <<>>)
card_text(c) ==
    JoinSpace(NonEmptyTexts(<< c.h2, c.companyName, c.company, c.companyLocation,
                               c.location, c.job_snippet, c.summary >>))

\* a or b on optional tags (a bs4 Tag is always truthy)
OrTag(a, b) == IF a # <<>> THEN a ELSE b

TitleFallbackLen == 80

\* href = c.get("href") or (c.select_one("a") and c.select_one("a").get("href"))
card_href(c) ==
    IF c.href # <<>> /\ c.href[1] # "" THEN c.href
    ELSE IF c.a = <<>> THEN <<>>
    ELSE c.a[1]

\* fault: the `break` of line 108 lost, the last keyword that occurs wins
RECURSIVE first_keyword_no_break(_, _)
first_keyword_no_break(kws, whole_text) ==
    IF kws = <<>> THEN <<>>
    ELSE IF first_keyword_no_break(Tail(kws), whole_text) # <<>>
         THEN first_keyword_no_break(Tail(kws), whole_text)
    ELSE IF Contains(upper(Head(kws)), whole_text) THEN << Head(kws) >>
    ELSE <<>>

\* the contract keyword loop, lines 102-108
RECURSIVE first_keyword(_, _)
first_keyword(kws, whole_text) ==
    IF kws = <<>> THEN <<>>
    ELSE IF Contains(upper(Head(kws)), whole_text) THEN << Head(kws) >>
    ELSE first_keyword(Tail(kws), whole_text)

\* fault: a default label in place of None when no keyword occurs
detect_contract_default(title, company, loc, summary) ==
    IF first_keyword(CONTRACT_KEYWORDS, upper(JoinSpace(<< title, company, loc, summary >>))) = <<>>
    THEN << <<"A","u","t","r","e">> >>
    ELSE first_keyword(CONTRACT_KEYWORDS, upper(JoinSpace(<< title, company, loc, summary >>)))

detect_contract(title, company, loc, summary) ==
    first_keyword(CONTRACT_KEYWORDS, upper(JoinSpace(<< title, company, loc, summary >>)))

\* the body of `for c in cards`: "skip" (continue), "raise" (exception in
\* urljoin) or the appended job
extract_card(c) ==
    LET title == IF c.h2 # <<>> THEN Strip(c.h2[1]) ELSE Take(card_text(c), TitleFallbackLen)
        href == card_href(c)
        comp_tag == OrTag(c.companyName, c.company)
        loc_tag == OrTag(c.companyLocation, c.location)
        summ_tag == OrTag(c.job_snippet, c.summary)
        company == IF comp_tag # <<>> THEN Strip(comp_tag[1]) ELSE <<>>
        loc == IF loc_tag # <<>> THEN Strip(loc_tag[1]) ELSE <<>>
        summary == IF summ_tag # <<>> THEN Strip(summ_tag[1]) ELSE <<>>
    IN  IF href = <<>> \/ href[1] = "" THEN [kind |-> "skip"]
        ELSE IF href[1] \in BadHrefs THEN [kind |-> "raise"]
        ELSE [kind |-> "job",
              job |-> [title |-> title, company |-> company, location |-> loc,
                       summary |-> summary, link |-> urljoin(href[1]),
                       contract |-> detect_contract(title, company, loc, summary),
                       id |-> get_job_id_from_link(urljoin(href[1]))]]

\* extract_card on each card of the site
extracted == [c \in Cards |-> extract_card(c)]

\* fault: `break` in place of the `continue` of line 87
RECURSIVE extract_cards_break(_, _)
extract_cards_break(cards, results) ==
    IF cards = <<>> THEN [results |-> results, raised |-> FALSE]
    ELSE LET r == extracted[Head(cards)]
         IN  IF r.kind = "raise" THEN [results |-> results, raised |-> TRUE]
             ELSE IF r.kind = "skip" THEN [results |-> results, raised |-> FALSE]
             ELSE extract_cards_break(Tail(cards), Append(results, r.job))

\* `for c in cards`: the results so far and whether an exception left the loop
RECURSIVE extract_cards(_, _)
extract_cards(cards, results) ==
    IF cards = <<>> THEN [results |-> results, raised |-> FALSE]
    ELSE LET r == extracted[Head(cards)]
         IN  IF r.kind = "raise" THEN [results |-> results, raised |-> TRUE]
             ELSE IF r.kind = "skip" THEN extract_cards(Tail(cards), results)
             ELSE extract_cards(Tail(cards), Append(results, r.job))

(* ---------------------------- listing fetcher ------------------------- *)
\* cards = soup.select("a.tapItem") or soup.select("div.job_seen_beacon a"),
\* then the <article> fallback
select_cards(resp) ==
    IF resp.tapItem # <<>> THEN resp.tapItem
    ELSE IF resp.beacon # <<>> THEN resp.beacon
    ELSE resp.article

\* `for page in range(max_pages)`: responses[p + 1] is the site's answer to
\* the request for page p; kind "error" is a transport exception of
\* requests.get.  Gives the results and how the loop was left: "done" (all
\* pages read) or the reason of the `break`.
RECURSIVE parse_pages(_, _, _, _)
parse_pages(responses, page, max_pages, results) ==
    IF page >= max_pages THEN [results |-> results, stop |-> "done"]
    ELSE LET resp == responses[page + 1]
         IN  IF resp.kind = "error" THEN [results |-> results, stop |-> "error"]
             ELSE IF resp.status # 200 THEN [results |-> results, stop |-> "status"]
             ELSE IF select_cards(resp) = <<>> THEN [results |-> results, stop |-> "empty"]
             ELSE LET r == extract_cards(select_cards(resp), results)
                  IN  IF r.raised THEN [results |-> r.results, stop |-> "exception"]
                      ELSE parse_pages(responses, page + 1, max_pages, r.results)

\* fault: the handler of lines 119-121 missing, so that a transport error or
\* an exception while a card is read leaves parse_indeed_search
fetch_raises_uncaught(stop) == stop \in {"error", "exception"}

\* lines 119-121: `except Exception` prints and breaks; whatever made the
\* page loop stop, nothing is raised to the caller
fetch_raises(stop) == FALSE

parse_indeed_search(responses, max_pages) ==
    LET r == parse_pages(responses, 0, max_pages, <<>>)
    IN  [results |-> r.results, failed |-> r.stop # "done", raised |-> fetch_raises(r.stop)]

(* --------------------------- eligibility filter ----------------------- *)
job_loc(j) == lower(j.location)
job_text(j) == lower(j.title \o <<" ">> \o j.summary)

is_remote(j) ==
    \/ Contains(s_teletravail_acc, job_loc(j))
    \/ Contains(s_teletravail_acc, job_text(j))
    \/ Contains(s_teletravail, job_text(j))
    \/ Contains(s_remote, job_text(j))

in_region(j, region_cities) ==
    \E k \in 1..Len(region_cities) :
        \/ Contains(lower(region_cities[k]), job_loc(j))
        \/ Contains(lower(region_cities[k]), job_text(j))

\* fault: the remote exemption of line 133 lost, a remote job must be in
\* region too
pass_ok_region_only(j, region_cities, accept_remote) ==
    in_region(j, region_cities)

pass_ok(j, region_cities, accept_remote) ==
    IF accept_remote /\ is_remote(j) THEN TRUE ELSE in_region(j, region_cities)

\* fault: the test of line 139 lost, a job without tag is judged on its
\* summary alone
contract_rejects_untagged(j, accept_contracts) ==
    /\ accept_contracts
    /\ ~ (Truthy(j.contract) /\ \E k \in 1..Len(CONTRACT_KEYWORDS) :
            Contains(upper(CONTRACT_KEYWORDS[k]), upper(j.contract[1])))
    /\ ~ \E kw \in {s_cdi, s_cdd, s_interim_acc, s_interim} :
            Contains(lower(kw), lower(j.summary))

\* lines 137-143: TRUE when the contract branch executes `continue`
contract_rejects(j, accept_contracts) ==
    /\ accept_contracts
    /\ Truthy(j.contract)
    /\ ~ \E k \in 1..Len(CONTRACT_KEYWORDS) :
            Contains(upper(CONTRACT_KEYWORDS[k]), upper(j.contract[1]))
    /\ ~ \E kw \in {s_cdi, s_cdd, s_interim_acc, s_interim} :
            Contains(lower(kw), lower(j.summary))

keeps(j, region_cities, accept_contracts, accept_remote) ==
    /\ pass_ok(j, region_cities, accept_remote)
    /\ ~ contract_rejects(j, accept_contracts)

filter_by_region_and_contract(jobs, region_cities, accept_contracts, accept_remote) ==
    SelectSeq(jobs, LAMBDA j : keeps(j, region_cities, accept_contracts, accept_remote))

\* fault: the re-check of line 198 made on the text the filter looks at
\* (title included, with the spelling teletravail)
remote_recheck_as_filter(j) == is_remote(j)

\* line 198: the Phase B re-check on location + " " + summary
remote_recheck(j) ==
    \/ Contains(s_teletravail_acc, lower(j.location \o <<" ">> \o j.summary))
    \/ Contains(s_remote, lower(j.location \o <<" ">> \o j.summary))

(* ----------------------------- the answers ---------------------------- *)
\* the result pages: up to MaxCards different cards, in any order
RECURSIVE PagesOfLen(_)
PagesOfLen(n) ==
    IF n = 0 THEN { <<>> }
    ELSE { Append(p, c) : p \in PagesOfLen(n - 1), c \in Cards }
Distinct(p) == \A i, j \in 1..Len(p) : i # j => p[i] # p[j]
Pages == UNION { { p \in PagesOfLen(n) : Distinct(p) } : n \in 0..MaxCards }

\* what requests.get can give for one page: a transport error, a non-200
\* status, or a 200 page whose cards are found by the first, the second or
\* the third selector
ErrorResponse == [kind |-> "error", status |-> 0, tapItem |-> <<>>, beacon |-> <<>>, article |-> <<>>]
StatusResponse == [kind |-> "ok", status |-> 503, tapItem |-> <<>>, beacon |-> <<>>, article |-> <<>>]
OkResponse(p, where) ==
    [kind |-> "ok", status |-> 200,
     tapItem |-> IF where = "tapItem" THEN p ELSE <<>>,
     beacon |-> IF where = "beacon" THEN p ELSE <<>>,
     article |-> IF where = "article" THEN p ELSE <<>>]
Responses ==
    {ErrorResponse, StatusResponse}
    \cup { OkResponse(p, w) : p \in Pages, w \in {"tapItem", "beacon", "article"} }

(* --------------------------- fingerprint store ------------------------ *)
\* The seen file: missing, not parseable as JSON ("corrupt"), or a JSON
\* array of strings.
MissingFile == [kind |-> "missing", ids |-> {}]
CorruptFile == [kind |-> "corrupt", ids |-> {}]
ArrayFile(ids) == [kind |-> "array", ids |-> ids]
\* Other contents: a file that exists and cannot be opened; valid JSON that
\* is an object (ids: its keys), a string (ids: its characters), a number,
\* true, false or null ("scalar"), an array of arrays or of objects ("nested")
UnreadableFile == [kind |-> "unreadable", ids |-> {}]
ObjectFile(keys) == [kind |-> "object", ids |-> keys]
StringFile(chars) == [kind |-> "string", ids |-> chars]
ScalarFile == [kind |-> "scalar", ids |-> {}]
NestedFile == [kind |-> "nested", ids |-> {}]

\* lines 40-48. line 41: a missing file; line 44: open raises on an
\* unreadable file; line 45: json.load raises on a corrupt one; line 46:
\* set(data) is the elements of an array, the keys of an object, the
\* characters of a string, and raises TypeError on a scalar and on
\* unhashable elements; line 47 catches every Exception
load_seen(f) ==
    IF f.kind = "missing" THEN {}
    ELSE IF f.kind \in {"unreadable", "corrupt", "scalar", "nested"} THEN {}
    ELSE f.ids

\* the content of the file after a save_seen that completes
save_seen(seen_set) == ArrayFile(seen_set)

\* fault: save_seen reads the file first and writes the union of both sets
file_after_save_merged(f, seen_set) ==
    save_seen(seen_set \cup (IF f.kind = "array" THEN f.ids ELSE {}))

\* line 51: mode "w" truncates the file, what it held before is not read
file_after_save(f, seen_set) == save_seen(seen_set)

(* ------------------------------- state -------------------------------- *)
VARIABLES
    pc,           \* position of the process in main_loop (or of a direct call)
    token,        \* TELEGRAM_BOT_TOKEN
    chat_id,      \* TELEGRAM_CHAT_ID
    file,         \* the seen file
    seen,         \* main_loop's fingerprint set
    all_new,      \* main_loop's list of new jobs of the running cycle
    ti,           \* index in TITLES of the running sweep
    ci,           \* index in BRETAGNE_CITIES of Phase A
    k,            \* index in all_new of the next job to notify
    cycle,        \* cycles begun by the running process
    budget,       \* cycles that may still begin (bounds the run)
    restarts,     \* restarts of the process so far
    \* history of the run
    queried,      \* the searches issued in the running cycle, in order
    firstFailure, \* position in queried of the first search that failed, or 0
    origin,       \* for each entry of all_new, the phase that collected it
    offered,      \* ids of the jobs that passed the filter (and, in Phase B,
                  \* the re-check) in the running cycle
    log,          \* the notification attempts of the running cycle, in order
    notifiedBefore, \* ids with a notification attempt by an earlier process
    procAttempts, \* per id, the notification attempts of the running process
    procAppends,  \* per id, the appends to all_new of the running process
    failed,       \* ids whose notification failed in the running process
    loaded,       \* what load_seen returned to the running process
    io,           \* accesses of the running process to the seen file
    file0,        \* the seen file at the first start
    cycleFile,    \* the seen file when the running cycle began
    badWrite,     \* a write of the seen file has been cut or has failed
    pendingAtStop,\* ids marked seen and not yet notified when the process last
                  \* stopped (kept until the first search of the next process)
    call,         \* arguments of a direct call of a function
    ret,          \* result of a direct call of a function
    inst          \* the instances of main_loop that share one seen file,
                  \* when several are run

vars ==
    << pc, token, chat_id, file, seen, all_new, ti, ci, k, cycle, budget, restarts,
       queried, firstFailure, origin, offered, log, notifiedBefore, procAttempts, procAppends, failed,
       loaded, io, file0, cycleFile, badWrite, pendingAtStop, call, ret, inst >>

envVars == << token, chat_id, file0, inst >>
callVars == << call, ret >>

\* os.getenv gives None ("unset" here), "" or a value
TokenValues == {"unset", "", "123:abc"}
ChatValues == {"unset", "", "42"}
Falsy(v) == v \in {"unset", ""}

InitialFiles ==
    { MissingFile, CorruptFile, ArrayFile({"a07c", "abc123"}) }

NoCall == [fn |-> "main_loop"]
\* no second instance of the script
NoInst == <<>>
ZeroCount == [i \in Ids |-> 0]
LoopPcs == {"phaseA", "phaseB", "notify", "save", "sleep"}

InitWith(files) ==
    /\ pc = "start"
    /\ token \in TokenValues
    /\ chat_id \in ChatValues
    /\ file \in files
    /\ file0 = file
    /\ cycleFile = file
    /\ seen = {}
    /\ all_new = <<>>
    /\ ti = 1 /\ ci = 1 /\ k = 1
    /\ cycle = 0
    /\ budget = MaxCycles
    /\ restarts = 0
    /\ queried = <<>> /\ firstFailure = 0 /\ origin = <<>> /\ offered = {} /\ log = <<>>
    /\ notifiedBefore = {}
    /\ procAttempts = ZeroCount /\ procAppends = ZeroCount
    /\ failed = {}
    /\ loaded = {}
    /\ io = {}
    /\ badWrite = (file.kind = "corrupt")
    /\ pendingAtStop = {}
    /\ call = NoCall
    /\ ret = <<>>
    /\ inst = NoInst

Init == InitWith(InitialFiles)

(* ------------------------------ main_loop ----------------------------- *)
\* fault: `is None` in place of `not`, an empty value passes
credentials_missing_none_only(tok, chat) == tok = "unset" \/ chat = "unset"

\* line 172
credentials_missing(tok, chat) == Falsy(tok) \/ Falsy(chat)

\* lines 172-174: the configuration error, main_loop returns
ConfigError ==
    /\ pc = "start"
    /\ credentials_missing(token, chat_id)
    /\ pc' = "exited"
    /\ UNCHANGED << file, seen, all_new, ti, ci, k, cycle, budget, restarts, queried, firstFailure,
                    origin, offered, log, notifiedBefore, procAttempts, procAppends, failed,
                    loaded, io, cycleFile, badWrite, pendingAtStop >>
    /\ UNCHANGED envVars
    /\ UNCHANGED callVars

\* lines 176-179: load the seen file, enter the loop, begin the first cycle
Startup ==
    /\ pc = "start"
    /\ ~ credentials_missing(token, chat_id)
    /\ budget > 0
    /\ budget' = budget - 1
    /\ seen' = load_seen(file)
    /\ loaded' = load_seen(file)
    /\ io' = IF file.kind = "missing" THEN io ELSE io \cup {"read"}
    /\ pc' = "phaseA"
    /\ all_new' = <<>>
    /\ ti' = 1 /\ ci' = 1 /\ k' = 1
    /\ cycle' = 1
    /\ cycleFile' = file
    /\ queried' = <<>> /\ firstFailure' = 0 /\ origin' = <<>> /\ offered' = {} /\ log' = <<>>
    /\ UNCHANGED << file, restarts, notifiedBefore, procAttempts, procAppends,
                    failed, badWrite, pendingAtStop >>
    /\ UNCHANGED envVars
    /\ UNCHANGED callVars

\* fault: Phase A without the test of line 187
RECURSIVE collect_regional_unchecked(_, _, _)
collect_regional_unchecked(candidates, new, seen_set) ==
    IF candidates = <<>> THEN [all_new |-> new, seen |-> seen_set]
    ELSE collect_regional_unchecked(Tail(candidates), Append(new, Head(candidates)),
                                    seen_set \cup {Head(candidates).id})

\* lines 186-189: `for j in candidates` of Phase A
RECURSIVE collect_regional(_, _, _)
collect_regional(candidates, new, seen_set) ==
    IF candidates = <<>> THEN [all_new |-> new, seen |-> seen_set]
    ELSE IF Head(candidates).id \notin seen_set
         THEN collect_regional(Tail(candidates), Append(new, Head(candidates)),
                               seen_set \cup {Head(candidates).id})
         ELSE collect_regional(Tail(candidates), new, seen_set)

\* fault: Phase B marks a candidate seen before the test of line 198
RECURSIVE collect_remote_marks_rejected(_, _, _, _)
collect_remote_marks_rejected(candidates, recheck, new, seen_set) ==
    IF candidates = <<>> THEN [all_new |-> new, seen |-> seen_set]
    ELSE IF Head(recheck) /\ Head(candidates).id \notin seen_set
         THEN collect_remote_marks_rejected(Tail(candidates), Tail(recheck),
                                            Append(new, Head(candidates)),
                                            seen_set \cup {Head(candidates).id})
         ELSE collect_remote_marks_rejected(Tail(candidates), Tail(recheck), new,
                                            seen_set \cup {Head(candidates).id})

\* fault: Phase B without the seen.add of line 199
RECURSIVE collect_remote_unmarked(_, _, _, _)
collect_remote_unmarked(candidates, recheck, new, seen_set) ==
    IF candidates = <<>> THEN [all_new |-> new, seen |-> seen_set]
    ELSE IF Head(recheck) /\ Head(candidates).id \notin seen_set
         THEN collect_remote_unmarked(Tail(candidates), Tail(recheck),
                                      Append(new, Head(candidates)), seen_set)
         ELSE collect_remote_unmarked(Tail(candidates), Tail(recheck), new, seen_set)

\* lines 196-201: `for j in candidates` of Phase B; recheck[n] is the value
\* of the test of line 198 on candidates[n]
RECURSIVE collect_remote(_, _, _, _)
collect_remote(candidates, recheck, new, seen_set) ==
    IF candidates = <<>> THEN [all_new |-> new, seen |-> seen_set]
    ELSE IF Head(recheck) /\ Head(candidates).id \notin seen_set
         THEN collect_remote(Tail(candidates), Tail(recheck),
                             Append(new, Head(candidates)),
                             seen_set \cup {Head(candidates).id})
         ELSE collect_remote(Tail(candidates), Tail(recheck), new, seen_set)

\* the appends of one step, counted per id
CountAppends(old, new) ==
    [i \in Ids |-> procAppends[i]
        + Cardinality({n \in (Len(old) + 1)..Len(new) : new[n].id = i})]
Tags(n, tag) == [m \in 1..n |-> tag]

\* lines 184 and 194: what parse_indeed_search(query, location, max_pages=1)
\* can return, over all the answers of the site to the one page it asks
Fetched == {parse_indeed_search(<<resp>>, 1) : resp \in Responses}

\* line 198 on each candidate
rechecks(candidates) ==
    [n \in 1..Len(candidates) |-> remote_recheck(candidates[n])]

\* lines 185 and 195: the candidates of a fetch (with, for Phase B, the
\* re-check of each), whether the fetch failed and whether it raised
search(r, accept_remote) ==
    LET candidates == filter_by_region_and_contract(r.results, BRETAGNE_CITIES,
                                                    TRUE, accept_remote)
    IN  [candidates |-> candidates,
         recheck |-> IF accept_remote THEN rechecks(candidates) ELSE <<>>,
         failed |-> r.failed, raised |-> r.raised]

\* the outcomes of one search of Phase A and of Phase B
RegionalOutcomes == {search(r, FALSE) : r \in Fetched}
RemoteOutcomes == {search(r, TRUE) : r \in Fetched}

\* fault: the test of line 205 lost, save_seen runs in every cycle
has_new_always(new) == TRUE

\* line 205
has_new(new) == new # <<>>

\* fault: save_seen moved before the notifications, which are then lost
after_sweeps_save_first(new) == IF has_new(new) THEN "save" ELSE "sleep"

\* lines 205-214: after the two sweeps, the notifications (then save_seen) when
\* there are new jobs, else straight to the sleep
after_sweeps(new) == IF has_new(new) THEN "notify" ELSE "sleep"

\* lines 181-190: one (title, city) iteration of Phase A
PhaseA ==
    /\ pc = "phaseA"
    /\ \E s \in RegionalOutcomes :
        LET r == collect_regional(s.candidates, all_new, seen)
        IN  /\ queried' = Append(queried, [q |-> <<TITLES[ti]>>, l |-> BRETAGNE_CITIES[ci],
                                           max_pages |-> 1])
            /\ firstFailure' = IF s.failed /\ firstFailure = 0
                               THEN Len(queried) + 1 ELSE firstFailure
            /\ IF s.raised
               THEN /\ pc' = "raised"
                    /\ UNCHANGED << all_new, seen, procAppends, origin, offered, ti, ci >>
               ELSE /\ offered' = offered \cup {s.candidates[n].id : n \in 1..Len(s.candidates)}
                    /\ all_new' = r.all_new
                    /\ seen' = r.seen
                    /\ procAppends' = CountAppends(all_new, r.all_new)
                    /\ origin' = origin \o Tags(Len(r.all_new) - Len(all_new), "A")
                    /\ IF ci < Len(BRETAGNE_CITIES)
                       THEN /\ ci' = ci + 1 /\ ti' = ti /\ pc' = "phaseA"
                       ELSE IF ti < Len(TITLES)
                       THEN /\ ci' = 1 /\ ti' = ti + 1 /\ pc' = "phaseA"
                       ELSE /\ ci' = 1 /\ ti' = 1 /\ pc' = "phaseB"
    /\ pendingAtStop' = {}
    /\ UNCHANGED << file, k, cycle, budget, restarts, log, notifiedBefore, procAttempts,
                    failed, loaded, io, cycleFile, badWrite >>
    /\ UNCHANGED envVars
    /\ UNCHANGED callVars

\* lines 192-205: one title iteration of Phase B; after the last one the
\* test `if all_new`
PhaseB ==
    /\ pc = "phaseB"
    /\ \E s \in RemoteOutcomes :
        LET r == collect_remote(s.candidates, s.recheck, all_new, seen)
        IN  /\ queried' = Append(queried, [q |-> <<TITLES[ti], "télétravail">>, l |-> s_France,
                                           max_pages |-> 1])
            /\ firstFailure' = IF s.failed /\ firstFailure = 0
                               THEN Len(queried) + 1 ELSE firstFailure
            /\ IF s.raised
               THEN /\ pc' = "raised"
                    /\ UNCHANGED << all_new, seen, procAppends, origin, offered, ti >>
               ELSE /\ offered' = offered \cup {s.candidates[n].id :
                                                   n \in {m \in 1..Len(s.candidates) : s.recheck[m]}}
                    /\ all_new' = r.all_new
                    /\ seen' = r.seen
                    /\ procAppends' = CountAppends(all_new, r.all_new)
                    /\ origin' = origin \o Tags(Len(r.all_new) - Len(all_new), "B")
                    /\ IF ti < Len(TITLES)
                       THEN /\ ti' = ti + 1 /\ pc' = "phaseB"
                       ELSE /\ ti' = 1
                            /\ pc' = after_sweeps(r.all_new)
    /\ pendingAtStop' = {}
    /\ UNCHANGED << file, ci, k, cycle, budget, restarts, log, notifiedBefore, procAttempts,
                    failed, loaded, io, cycleFile, badWrite >>
    /\ UNCHANGED envVars
    /\ UNCHANGED callVars

\* lines 148-156: what the endpoint does with the POST, and the result
SendOutcomes == {"200", "non200", "error"}
send_telegram_message(outcome) == outcome = "200"

\* fault: a `break` on the first failed delivery
next_index_break(success, idx, n) == IF success THEN idx + 1 ELSE n + 1
\* fault: the id forgotten when the delivery fails, for a retry in a later cycle
seen_after_send_retry(seen_set, id, success) ==
    IF success THEN seen_set ELSE seen_set \ {id}

\* lines 207-211: the loop goes on to the next job whatever `success` is
next_index(success, idx, n) == idx + 1
\* lines 209-211: `success` is only printed, the fingerprint set is not touched
seen_after_send(seen_set, id, success) == seen_set

\* fault: save_seen called inside the loop, after each send
file_during_batch_saved(f, seen_set) == save_seen(seen_set)

\* lines 207-211: the loop does not write the seen file
file_during_batch(f, seen_set) == f

\* lines 207-211: one iteration of `for j in all_new`
Notify ==
    /\ pc = "notify"
    /\ k <= Len(all_new)
    /\ \E outcome \in SendOutcomes :
        LET success == send_telegram_message(outcome)
            id == all_new[k].id
        IN  /\ log' = Append(log, [id |-> id, ok |-> success])
            /\ procAttempts' = [procAttempts EXCEPT ![id] = @ + 1]
            /\ failed' = IF success THEN failed ELSE failed \cup {id}
            /\ seen' = seen_after_send(seen, id, success)
            /\ k' = next_index(success, k, Len(all_new))
    /\ file' = file_during_batch(file, seen)
    /\ UNCHANGED << pc, all_new, ti, ci, cycle, budget, restarts, queried, firstFailure, origin, offered,
                    notifiedBefore, procAppends, loaded, io, cycleFile, badWrite, pendingAtStop >>
    /\ UNCHANGED envVars
    /\ UNCHANGED callVars

\* the end of `for j in all_new`: line 212 is next
NotifyDone ==
    /\ pc = "notify"
    /\ k > Len(all_new)
    /\ pc' = "save"
    /\ UNCHANGED << file, seen, all_new, ti, ci, k, cycle, budget, restarts, queried, firstFailure,
                    origin, offered, log, notifiedBefore, procAttempts, procAppends, failed,
                    loaded, io, cycleFile, badWrite, pendingAtStop >>
    /\ UNCHANGED envVars
    /\ UNCHANGED callVars

\* line 212, the write completes
SaveSeen ==
    /\ pc = "save"
    /\ file' = file_after_save(file, seen)
    /\ io' = io \cup {"write"}
    /\ pc' = "sleep"
    /\ UNCHANGED << seen, all_new, ti, ci, k, cycle, budget, restarts, queried, firstFailure, origin, offered,
                    log, notifiedBefore, procAttempts, procAppends, failed, loaded,
                    cycleFile, badWrite, pendingAtStop >>
    /\ UNCHANGED envVars
    /\ UNCHANGED callVars

\* line 212, open() or the write raises OSError: nothing in save_seen or in
\* main_loop catches it.  open() may have failed (file untouched) or the file
\* was truncated and partly written.
SaveSeenFails ==
    /\ pc = "save"
    /\ file' \in {file, CorruptFile}
    /\ io' = io \cup {"write"}
    /\ badWrite' = TRUE
    /\ pc' = "raised"
    /\ UNCHANGED << seen, all_new, ti, ci, k, cycle, budget, restarts, queried, firstFailure, origin, offered,
                    log, notifiedBefore, procAttempts, procAppends, failed, loaded,
                    cycleFile, pendingAtStop >>
    /\ UNCHANGED envVars
    /\ UNCHANGED callVars

\* lines 217-219 and 179: the sleep ends, the next cycle begins
NextCycle ==
    /\ pc = "sleep"
    /\ budget > 0
    /\ budget' = budget - 1
    /\ cycle' = cycle + 1
    /\ pc' = "phaseA"
    /\ all_new' = <<>>
    /\ ti' = 1 /\ ci' = 1 /\ k' = 1
    /\ cycleFile' = file
    /\ queried' = <<>> /\ firstFailure' = 0 /\ origin' = <<>> /\ offered' = {} /\ log' = <<>>
    /\ UNCHANGED << file, seen, restarts, notifiedBefore, procAttempts, procAppends,
                    failed, loaded, io, badWrite, pendingAtStop >>
    /\ UNCHANGED envVars
    /\ UNCHANGED callVars

\* ids with a notification attempt by the running process
Attempted == {i \in Ids : procAttempts[i] > 0}

\* ids marked seen whose notification has not been attempted yet
Pending == {all_new[n].id : n \in k..Len(all_new)}

\* the process is terminated from outside while it is in the loop, and its
\* memory is gone; a termination during line 212 can leave the file truncated
Kill ==
    /\ pc \in LoopPcs
    /\ pc' = "stopped"
    /\ pendingAtStop' = Pending
    /\ IF pc = "save"
       THEN /\ file' \in {file, CorruptFile}
            /\ badWrite' = (badWrite \/ file' # file)
       ELSE UNCHANGED << file, badWrite >>
    /\ seen' = {}
    /\ all_new' = <<>>
    /\ ti' = 1 /\ ci' = 1 /\ k' = 1
    /\ queried' = <<>> /\ firstFailure' = 0 /\ origin' = <<>> /\ offered' = {} /\ log' = <<>>
    /\ procAttempts' = ZeroCount /\ procAppends' = ZeroCount
    /\ failed' = {}
    /\ loaded' = {}
    /\ cycleFile' = file'
    /\ io' = {}
    /\ notifiedBefore' = notifiedBefore \cup Attempted
    /\ UNCHANGED << cycle, budget, restarts >>
    /\ UNCHANGED envVars
    /\ UNCHANGED callVars

\* the script is started again: a new process with an empty memory
Restart ==
    /\ pc \in {"stopped", "raised"}
    /\ restarts < MaxRestarts
    /\ restarts' = restarts + 1
    /\ pc' = "start"
    /\ seen' = {}
    /\ all_new' = <<>>
    /\ ti' = 1 /\ ci' = 1 /\ k' = 1
    /\ cycle' = 0
    /\ queried' = <<>> /\ firstFailure' = 0 /\ origin' = <<>> /\ offered' = {} /\ log' = <<>>
    /\ procAttempts' = ZeroCount /\ procAppends' = ZeroCount
    /\ failed' = {}
    /\ loaded' = {}
    /\ cycleFile' = file
    /\ io' = {}
    /\ notifiedBefore' = notifiedBefore \cup Attempted
    /\ UNCHANGED << file, budget, badWrite, pendingAtStop >>
    /\ UNCHANGED envVars
    /\ UNCHANGED callVars

Next ==
    \/ ConfigError
    \/ Startup
    \/ PhaseA
    \/ PhaseB
    \/ Notify
    \/ NotifyDone
    \/ SaveSeen
    \/ SaveSeenFails
    \/ NextCycle

Spec == Init /\ [][Next]_vars

NextRestart ==
    \/ ConfigError
    \/ Startup
    \/ PhaseA
    \/ PhaseB
    \/ Notify
    \/ NotifyDone
    \/ SaveSeen
    \/ SaveSeenFails
    \/ NextCycle
    \/ Kill
    \/ Restart

SpecRestart == Init /\ [][NextRestart]_vars

(* ------------------ direct calls of the pure functions ---------------- *)
\* the variables of main_loop, idle during a direct call
IdleLoop ==
    /\ token = "123:abc" /\ chat_id = "42"
    /\ file = MissingFile /\ file0 = MissingFile /\ cycleFile = MissingFile
    /\ seen = {} /\ all_new = <<>>
    /\ ti = 1 /\ ci = 1 /\ k = 1
    /\ cycle = 0 /\ budget = 0 /\ restarts = 0
    /\ queried = <<>> /\ firstFailure = 0 /\ origin = <<>> /\ offered = {} /\ log = <<>>
    /\ notifiedBefore = {}
    /\ procAttempts = ZeroCount /\ procAppends = ZeroCount
    /\ failed = {} /\ loaded = {} /\ io = {}
    /\ badWrite = FALSE /\ pendingAtStop = {}
Idle == IdleLoop /\ inst = NoInst

loopVars ==
    << token, chat_id, file, seen, all_new, ti, ci, k, cycle, budget, restarts,
       queried, firstFailure, origin, offered, log, notifiedBefore, procAttempts,
       procAppends, failed, loaded, io, file0, cycleFile, badWrite, pendingAtStop, inst >>

\* jobs handed to filter_by_region_and_contract: every combination of a
\* location, a title, a summary and a contract value (None, "", a keyword in
\* another case, a word that is no keyword)
t_TeletravailLoc == <<"T","é","l","é","t","r","a","v","a","i","l">>
t_ContratCdd == <<"c","o","n","t","r","a","t"," ","c","d","d">>
t_Stage == <<"S","t","a","g","e">>
t_RemoteLoc == <<"R","e","m","o","t","e">>
FilterLocations == {t_Paris, t_Rennes, t_TeletravailLoc, t_RemoteLoc}
FilterTitles == {t_Saisie, t_RemoteSaisie}
FilterSummaries == {<<>>, t_teletravail_plain, t_ContratCdd}
FilterContracts == {<<>>, << <<>> >>, <<s_cdi>>, <<t_Stage>>}
FilterJobs ==
    { [title |-> t, company |-> <<>>, location |-> l, summary |-> sm,
       link |-> "https://fr.indeed.com/rc/1", contract |-> c, id |-> "5d1f"] :
      l \in FilterLocations, t \in FilterTitles, sm \in FilterSummaries,
      c \in FilterContracts }
\* the job put in front of another one in the two-job batches
LeadJobs ==
    { j \in FilterJobs : j.title = t_Saisie /\ j.summary = <<>> /\ j.contract \in {<<>>, <<t_Stage>>}
                         /\ j.location \in {t_Paris, t_Rennes} }
FilterBatches ==
    { <<j>> : j \in FilterJobs } \cup { <<a, j>> : a \in LeadJobs, j \in FilterJobs }

InitFilter ==
    /\ pc = "filter_call"
    /\ \E jobs \in FilterBatches, ac \in BOOLEAN, ar \in BOOLEAN :
          call = [fn |-> "filter_by_region_and_contract", jobs |-> jobs,
                  accept_contracts |-> ac, accept_remote |-> ar]
    /\ ret = <<>>
    /\ Idle

\* filter_by_region_and_contract(jobs, BRETAGNE_CITIES, accept_contracts, accept_remote)
FilterCall ==
    /\ pc = "filter_call"
    /\ ret' = filter_by_region_and_contract(call.jobs, BRETAGNE_CITIES,
                                            call.accept_contracts, call.accept_remote)
    /\ pc' = "filter_ret"
    /\ UNCHANGED call
    /\ UNCHANGED loopVars

NextFilter == FilterCall

SpecFilter == InitFilter /\ [][NextFilter]_vars

\* answers handed to parse_indeed_search when it is called with several pages
ProbePages ==
    { <<>>, <<card_rennes>>, <<card_remote>>, <<card_nolink>>, <<card_badlink>>,
      <<card_rennes, card_badlink>>, <<card_nolink, card_remote>>,
      <<card_rennes_old, card_lille>>, <<card_nolink, card_rennes_old>>, <<card_long>> }
ProbeResponses ==
    {ErrorResponse, StatusResponse}
    \cup { OkResponse(p, "tapItem") : p \in ProbePages }
    \cup { OkResponse(<<card_remote>>, "beacon"), OkResponse(<<card_title_remote>>, "article") }
RECURSIVE SeqsOfLen(_, _)
SeqsOfLen(S, n) ==
    IF n = 0 THEN { <<>> } ELSE { Append(q, x) : q \in SeqsOfLen(S, n - 1), x \in S }

InitParse ==
    /\ pc = "parse_call"
    /\ \E responses \in SeqsOfLen(ProbeResponses, MaxPages), n \in 1..MaxPages :
          call = [fn |-> "parse_indeed_search", responses |-> responses, max_pages |-> n]
    /\ ret = <<>>
    /\ Idle

\* parse_indeed_search(query, location, max_pages)
ParseCall ==
    /\ pc = "parse_call"
    /\ ret' = parse_indeed_search(call.responses, call.max_pages)
    /\ pc' = "parse_ret"
    /\ UNCHANGED call
    /\ UNCHANGED loopVars

InitFetch == Init \/ InitParse

NextFetch ==
    \/ ConfigError
    \/ Startup
    \/ PhaseA
    \/ PhaseB
    \/ Notify
    \/ NotifyDone
    \/ SaveSeen
    \/ SaveSeenFails
    \/ NextCycle
    \/ ParseCall

SpecFetch == InitFetch /\ [][NextFetch]_vars

\* main_loop started on a seen file of any content
AnyFiles ==
    { MissingFile, CorruptFile, UnreadableFile, ScalarFile, NestedFile,
      ArrayFile({}), ArrayFile({"a07c", "abc123"}),
      ObjectFile({"a07c"}), StringFile({"a", "0", "7", "c"}) }
InitLoad == InitWith(AnyFiles)
SpecLoad == InitLoad /\ [][Next]_vars

\* one iteration of Phase B (lines 195-201) on the jobs of a search, with a
\* given fingerprint set and an empty all_new: a job alone, or behind a job
\* with another id or with its own id
OtherLink == "https://fr.indeed.com/rc/2"
RemoteBatches ==
    { <<j>> : j \in FilterJobs }
    \cup { << [a EXCEPT !.link = OtherLink, !.id = get_job_id_from_link(OtherLink)], j >> :
           a \in LeadJobs, j \in FilterJobs }
    \cup { <<a, j>> : a \in LeadJobs,
                      j \in {x \in FilterJobs : x.location = t_TeletravailLoc /\ x.contract = <<>>} }

InitRemote ==
    /\ pc = "remote_call"
    /\ \E jobs \in RemoteBatches, s \in {{}, {"5d1f"}} :
          call = [fn |-> "phase_b_iteration", jobs |-> jobs, seen |-> s]
    /\ ret = <<>>
    /\ Idle

\* lines 195-201 on call.jobs
RemoteIteration ==
    /\ pc = "remote_call"
    /\ LET s == search([results |-> call.jobs, failed |-> FALSE, raised |-> FALSE], TRUE)
           r == collect_remote(s.candidates, s.recheck, <<>>, call.seen)
       IN  ret' = [candidates |-> s.candidates, all_new |-> r.all_new, seen |-> r.seen]
    /\ pc' = "remote_ret"
    /\ UNCHANGED call
    /\ UNCHANGED loopVars

InitPhaseB == Init \/ InitRemote

NextPhaseB ==
    \/ ConfigError
    \/ Startup
    \/ PhaseA
    \/ PhaseB
    \/ Notify
    \/ NotifyDone
    \/ SaveSeen
    \/ SaveSeenFails
    \/ NextCycle
    \/ RemoteIteration

SpecPhaseB == InitPhaseB /\ [][NextPhaseB]_vars

\* texts handed to the contract inference of lines 102-108: none, one or
\* several keywords, in either case, one inside a longer word
t_InterimAccCdi == <<"m","i","s","s","i","o","n"," ","I","N","T","É","R","I","M"," ","o","u"," ","c","d","i">>
t_interimaire == <<"i","n","t","e","r","i","m","a","i","r","e">>
t_InterimCo == <<"I","n","t","e","r","i","m"," ","C","o">>
ContractTexts == { <<>>, t_Saisie, t_ContratCdd, t_TeletravailCDI, t_InterimAccCdi, t_interimaire }

InitContract ==
    /\ pc = "contract_call"
    /\ \E t \in ContractTexts, c \in {<<>>, t_Acme, t_InterimCo}, l \in {t_Rennes, <<>>},
          sm \in ContractTexts :
          call = [fn |-> "detect_contract", title |-> t, company |-> c, location |-> l,
                  summary |-> sm]
    /\ ret = <<>>
    /\ Idle

\* lines 103-108 on the four fields
ContractCall ==
    /\ pc = "contract_call"
    /\ ret' = detect_contract(call.title, call.company, call.location, call.summary)
    /\ pc' = "contract_ret"
    /\ UNCHANGED call
    /\ UNCHANGED loopVars

NextContract == ContractCall

SpecContract == InitContract /\ [][NextContract]_vars

(* ------------- two instances of main_loop on one seen file ------------ *)
Instances == {1, 2}

\* an instance before line 172: its own seen, all_new and loop indices, and
\* its history (loads of the file, what load_seen returned, the ids it
\* appended, those it attempted to notify, the last set it wrote)
FreshInstance ==
    [pc |-> "start", seen |-> {}, all_new |-> <<>>, k |-> 1, ti |-> 1, ci |-> 1,
     cycles |-> 0, loads |-> 0, loaded |-> {}, appended |-> {}, attempted |-> {},
     wrote |-> <<>>]

\* every variable but the seen file and the instances
soloVars ==
    << pc, token, chat_id, seen, all_new, ti, ci, k, cycle, budget, restarts,
       queried, firstFailure, origin, offered, log, notifiedBefore, procAttempts,
       procAppends, failed, loaded, io, file0, cycleFile, badWrite, pendingAtStop,
       call, ret >>

InitTwo ==
    /\ pc = "instances"
    /\ IdleLoop
    /\ call = NoCall /\ ret = <<>>
    /\ inst = [p \in Instances |-> FreshInstance]

NewIdsOf(old, new) == { new[n].id : n \in (Len(old) + 1)..Len(new) }

\* cycles begun by the two instances together; the run is bounded by
\* MaxCycles + 1 of them
CyclesBegun == inst[1].cycles + inst[2].cycles
\* the candidates (and re-checks) a search of Phase A / Phase B can give
RegionalCandidates == { [candidates |-> s.candidates, raised |-> s.raised] : s \in RegionalOutcomes }
RemoteCandidates ==
    { [candidates |-> s.candidates, recheck |-> s.recheck, raised |-> s.raised] :
      s \in RemoteOutcomes }

\* lines 172-179 in instance p (the credentials are set)
IStartup(p) ==
    /\ inst[p].pc = "start"
    /\ ~ credentials_missing(token, chat_id)
    /\ CyclesBegun < MaxCycles + 1
    /\ inst' = [inst EXCEPT ![p] =
                  [@ EXCEPT !.pc = "phaseA", !.seen = load_seen(file),
                            !.loaded = load_seen(file), !.loads = @ + 1,
                            !.cycles = 1, !.all_new = <<>>]]
    /\ UNCHANGED file
    /\ UNCHANGED soloVars

\* lines 181-190 in instance p: one (title, city) iteration
IPhaseA(p) ==
    /\ inst[p].pc = "phaseA"
    /\ \E s \in RegionalCandidates :
        LET me == inst[p]
            r == collect_regional(s.candidates, me.all_new, me.seen)
        IN  inst' = [inst EXCEPT ![p] =
                IF s.raised THEN [me EXCEPT !.pc = "raised"]
                ELSE [me EXCEPT
                        !.all_new = r.all_new,
                        !.seen = r.seen,
                        !.appended = @ \cup NewIdsOf(me.all_new, r.all_new),
                        !.ci = IF me.ci < Len(BRETAGNE_CITIES) THEN me.ci + 1 ELSE 1,
                        !.ti = IF me.ci < Len(BRETAGNE_CITIES) THEN me.ti
                               ELSE IF me.ti < Len(TITLES) THEN me.ti + 1 ELSE 1,
                        !.pc = IF me.ci < Len(BRETAGNE_CITIES) \/ me.ti < Len(TITLES)
                               THEN "phaseA" ELSE "phaseB"]]
    /\ UNCHANGED file
    /\ UNCHANGED soloVars

\* lines 192-205 in instance p: one title iteration
IPhaseB(p) ==
    /\ inst[p].pc = "phaseB"
    /\ \E s \in RemoteCandidates :
        LET me == inst[p]
            r == collect_remote(s.candidates, s.recheck, me.all_new, me.seen)
        IN  inst' = [inst EXCEPT ![p] =
                IF s.raised THEN [me EXCEPT !.pc = "raised"]
                ELSE [me EXCEPT
                        !.all_new = r.all_new,
                        !.seen = r.seen,
                        !.appended = @ \cup NewIdsOf(me.all_new, r.all_new),
                        !.ti = IF me.ti < Len(TITLES) THEN me.ti + 1 ELSE 1,
                        !.pc = IF me.ti < Len(TITLES) THEN "phaseB"
                               ELSE after_sweeps(r.all_new)]]
    /\ UNCHANGED file
    /\ UNCHANGED soloVars

\* lines 207-211 in instance p: one iteration of `for j in all_new`
INotify(p) ==
    /\ inst[p].pc = "notify"
    /\ inst[p].k <= Len(inst[p].all_new)
    /\ \E outcome \in SendOutcomes :
        LET me == inst[p]
            success == send_telegram_message(outcome)
            id == me.all_new[me.k].id
        IN  inst' = [inst EXCEPT ![p] =
                [me EXCEPT !.attempted = @ \cup {id},
                           !.seen = seen_after_send(me.seen, id, success),
                           !.k = next_index(success, me.k, Len(me.all_new))]]
    /\ file' = file_during_batch(file, inst[p].seen)
    /\ UNCHANGED soloVars

\* the end of `for j in all_new` in instance p
INotifyDone(p) ==
    /\ inst[p].pc = "notify"
    /\ inst[p].k > Len(inst[p].all_new)
    /\ inst' = [inst EXCEPT ![p].pc = "save"]
    /\ UNCHANGED file
    /\ UNCHANGED soloVars

\* line 212 in instance p
ISaveSeen(p) ==
    /\ inst[p].pc = "save"
    /\ file' = file_after_save(file, inst[p].seen)
    /\ inst' = [inst EXCEPT ![p] = [@ EXCEPT !.pc = "sleep", !.wrote = << inst[p].seen >>]]
    /\ UNCHANGED soloVars

\* line 212 in instance p, the write raises OSError
ISaveSeenFails(p) ==
    /\ inst[p].pc = "save"
    /\ file' \in {file, CorruptFile}
    /\ inst' = [inst EXCEPT ![p].pc = "raised"]
    /\ UNCHANGED soloVars

\* lines 217-219 and 179 in instance p
INextCycle(p) ==
    /\ inst[p].pc = "sleep"
    /\ CyclesBegun < MaxCycles + 1
    /\ inst' = [inst EXCEPT ![p] =
                  [@ EXCEPT !.pc = "phaseA", !.cycles = @ + 1, !.all_new = <<>>,
                            !.k = 1, !.ti = 1, !.ci = 1]]
    /\ UNCHANGED file
    /\ UNCHANGED soloVars

NextTwo ==
    \E p \in Instances :
        \/ IStartup(p)
        \/ IPhaseA(p)
        \/ IPhaseB(p)
        \/ INotify(p)
        \/ INotifyDone(p)
        \/ ISaveSeen(p)
        \/ ISaveSeenFails(p)
        \/ INextCycle(p)

SpecTwo == InitTwo /\ [][NextTwo]_vars

TypeOK ==
    /\ pc \in {"start", "exited", "raised", "stopped", "filter_call", "filter_ret",
               "parse_call", "parse_ret", "remote_call", "remote_ret",
               "contract_call", "contract_ret", "instances"} \cup LoopPcs
    /\ seen \subseteq Ids \cup {"abc123", "a", "0", "7", "c"}
    /\ k \in 1..(Len(all_new) + 1)
    /\ Len(origin) = Len(all_new)

(* ============================ properties ============================= *)
NewIds == IF all_new = <<>> THEN <<>> ELSE [n \in 1..Len(all_new) |-> all_new[n].id]
LogIds == IF log = <<>> THEN <<>> ELSE [n \in 1..Len(log) |-> log[n].id]

\* C1 as stated: as long as the seen file is what a completed write left, an id
\* gets at most one notification attempt over the whole run, restarts
\* included: at most one by the running process, and none when an earlier
\* process already attempted it.
C1_Original ==
    (~ badWrite /\ file.kind = "array") =>
        \A i \in Ids : /\ procAttempts[i] <= 1
                       /\ procAttempts[i] > 0 => i \notin notifiedBefore

\* C1 amended: within one process an id is appended to all_new at most once
\* and gets at most one notification attempt, always for an append; an id
\* that load_seen returned at the start of the process is never appended nor
\* notified by it; all_new never holds the same id twice.
C1_Dedup ==
    /\ \A i \in Ids :
        /\ procAppends[i] <= 1
        /\ procAttempts[i] <= procAppends[i]
        /\ i \in loaded => procAppends[i] = 0
    /\ \A m, n \in 1..Len(all_new) : m # n => all_new[m].id # all_new[n].id

\* after a restart, a posting that an earlier process notified and persisted is
\* offered again by a search and is not collected
C1_Witness ==
    /\ restarts > 0
    /\ pc = "sleep"
    /\ \E i \in Ids : i \in loaded /\ i \in notifiedBefore /\ i \in offered
                      /\ procAppends[i] = 0

\* C2: every job whose notification has not been attempted yet, in particular
\* the one the next attempt is for, has its id in the fingerprint set.
C2_MarkedBeforeNotify ==
    \A n \in k..Len(all_new) : all_new[n].id \in seen

\* in the middle of a batch: one attempt made, the next job waiting
C2_Witness == pc = "notify" /\ k = 2 /\ Len(all_new) >= 2

\* C3: an id whose notification failed stays in the fingerprint set, has had
\* that one attempt only, and is in the seen file whenever a cycle has ended.
C3_FailedNotRetried ==
    \A i \in failed :
        /\ i \in seen
        /\ procAttempts[i] = 1
        /\ pc = "sleep" => (file.kind = "array" /\ i \in file.ids)

\* the notification failed in the first cycle; the second cycle found the
\* posting again, made no attempt for it and has ended
C3_Witness ==
    /\ cycle = 2
    /\ pc = "sleep"
    /\ \E i \in failed : i \in offered /\ \A n \in 1..Len(log) : log[n].id # i

\* C4: during the notifications the attempts made are exactly those for the
\* first k-1 entries of all_new, in order; once the loop is over every entry
\* has had its attempt; the Phase A entries come before the Phase B entries.
C4_BatchNeverAborted ==
    /\ pc = "notify" => LogIds = SubSeq(NewIds, 1, k - 1)
    /\ (pc \in {"save", "sleep", "raised"} /\ all_new # <<>>) => LogIds = NewIds
    /\ \A m, n \in 1..Len(origin) : m < n => ~ (origin[m] = "B" /\ origin[n] = "A")

\* a batch of a regional and a remote job whose first notification failed
C4_Witness ==
    /\ pc = "save"
    /\ origin = <<"A", "B">>
    /\ Len(log) = 2 /\ ~ log[1].ok /\ log[2].ok

\* C5: the seen file does not change during the sweeps and the notifications;
\* when a cycle ends the file is the full fingerprint set (and differs from
\* what it was) if the cycle collected a new job, and is untouched otherwise.
C5_PersistIffNew ==
    /\ pc \in {"phaseA", "phaseB", "notify", "save"} => file = cycleFile
    /\ pc = "sleep" =>
        IF all_new # <<>>
        THEN file = [kind |-> "array", ids |-> seen] /\ file # cycleFile
        ELSE file = cycleFile

\* the first cycle wrote the file; the second found only known postings and
\* left it alone
C5_Witness ==
    /\ cycle = 2
    /\ pc = "sleep"
    /\ all_new = <<>> /\ offered # {}
    /\ file.kind = "array" /\ file # file0

\* the searches of one cycle, in order
RegionalQueries ==
    [n \in 1..(Len(TITLES) * Len(BRETAGNE_CITIES)) |->
        [q |-> << TITLES[((n - 1) \div Len(BRETAGNE_CITIES)) + 1] >>,
         l |-> BRETAGNE_CITIES[((n - 1) % Len(BRETAGNE_CITIES)) + 1],
         max_pages |-> 1]]
RemoteQueries ==
    [n \in 1..Len(TITLES) |->
        [q |-> << TITLES[n], "télétravail" >>, l |-> s_France, max_pages |-> 1]]
AllQueries == RegionalQueries \o RemoteQueries

\* the jobs of one page that is read to its end
CleanPage(resp) ==
    /\ resp.kind = "ok" /\ resp.status = 200
    /\ select_cards(resp) # <<>>
    /\ \A n \in 1..Len(select_cards(resp)) : card_href(select_cards(resp)[n]) = <<>>
                                             \/ card_href(select_cards(resp)[n])[1] \notin BadHrefs
RECURSIVE JobsOfCards(_)
JobsOfCards(cards) ==
    IF cards = <<>> THEN <<>>
    ELSE IF card_href(Head(cards)) = <<>> THEN JobsOfCards(Tail(cards))
    ELSE << [link |-> urljoin(card_href(Head(cards))[1])] >> \o JobsOfCards(Tail(cards))
RECURSIVE JobsOfPages(_, _)
JobsOfPages(responses, n) ==
    IF n = 0 THEN <<>>
    ELSE JobsOfPages(responses, n - 1) \o JobsOfCards(select_cards(responses[n]))
IsPrefixByLink(links, jobs) ==
    /\ Len(links) <= Len(jobs)
    /\ \A n \in 1..Len(links) : links[n].link = jobs[n].link

\* C6: once the sweeps of a cycle are over, every search of Phase A and of
\* Phase B has been issued, whatever failed; every job that passed the filter
\* is marked seen, and the new ones are notified when the loop is over.  A
\* call of parse_indeed_search returns at least the jobs of the pages read
\* before the first page that failed.
C6_FetchFailureIsolated ==
    /\ pc \in {"notify", "save", "sleep", "raised"} =>
        (queried = AllQueries /\ offered \subseteq seen)
    /\ pc \in {"save", "sleep", "raised"} =>
        \A n \in 1..Len(all_new) : procAttempts[all_new[n].id] > 0
    /\ pc = "parse_ret" =>
        \A n \in 0..call.max_pages :
            (\A m \in 1..n : CleanPage(call.responses[m]))
                => IsPrefixByLink(JobsOfPages(call.responses, n), ret.results)

\* the first search of the cycle failed; a later search (of Phase B) found a
\* new job, which has been notified
C6_Witness ==
    /\ pc = "save"
    /\ firstFailure = 1
    /\ \E n \in 1..Len(origin) : origin[n] = "B"

\* C7 as stated: main_loop is never left by an exception.
C7_NoTerminalState == pc # "raised"

\* C8: with the token or the chat id missing or empty, main_loop is at its
\* start or has returned; it issued no search, attempted no notification,
\* and neither read nor wrote the seen file.
C8_StartupPrecondition ==
    (Falsy(token) \/ Falsy(chat_id)) =>
        /\ pc \in {"start", "exited"}
        /\ queried = <<>> /\ cycle = 0
        /\ log = <<>> /\ \A i \in Ids : procAttempts[i] = 0
        /\ io = {} /\ file = file0 /\ loaded = {} /\ seen = {}

\* main_loop returned on an empty (not missing) token
C8_Witness == pc = "exited" /\ token = "" /\ chat_id = "42"

\* the first state of a process after a restart: the file is loaded, no search yet
AfterReload == pc = "phaseA" /\ cycle = 1 /\ queried = <<>> /\ restarts > 0

\* C9 as stated: the ids that were marked seen and not yet notified when the
\* process stopped are in the fingerprint set of the restarted process.
C9_Original == AfterReload => pendingAtStop \subseteq seen

\* C9 amended: none of these ids is in the fingerprint set of the restarted
\* process, so the posting is collected and notified when it is found again.
C9_NotDropped == AfterReload => pendingAtStop \cap seen = {}

\* a restart after a stop between the marking and the notification
C9_Witness == AfterReload /\ pendingAtStop # {}

\* whether lines 137-143 let a job through
GatePasses(j, accept_contracts) ==
    \/ ~ accept_contracts
    \/ j.contract = <<>>
    \/ j.contract = << <<>> >>
    \/ \E kw \in SeqToSet(CONTRACT_KEYWORDS) : Contains(upper(kw), upper(j.contract[1]))
    \/ \E kw \in {s_cdi, s_cdd, s_interim_acc, s_interim} : Contains(kw, lower(j.summary))

\* C10 as stated: with accept_remote, every job that is remote is in the result.
C10_Original ==
    (pc = "filter_ret" /\ call.accept_remote) =>
        \A n \in 1..Len(call.jobs) :
            is_remote(call.jobs[n]) => call.jobs[n] \in SeqToSet(ret)

\* C10 amended: with accept_remote, every job that is remote and that the
\* contract gate lets through is in the result, in region or not.
C10_RemoteAdmission ==
    (pc = "filter_ret" /\ call.accept_remote) =>
        \A n \in 1..Len(call.jobs) :
            (is_remote(call.jobs[n]) /\ GatePasses(call.jobs[n], call.accept_contracts))
                => call.jobs[n] \in SeqToSet(ret)

\* a remote job out of region, carrying a contract tag, is kept
C10_Witness ==
    /\ pc = "filter_ret" /\ call.accept_remote /\ call.accept_contracts
    /\ \E n \in 1..Len(call.jobs) :
        /\ is_remote(call.jobs[n])
        /\ ~ in_region(call.jobs[n], BRETAGNE_CITIES)
        /\ Truthy(call.jobs[n].contract)
        /\ call.jobs[n] \in SeqToSet(ret)

\* the locality gate of lines 131-136, on the values the filter computes
LocalityPasses(j, accept_remote) ==
    (accept_remote /\ is_remote(j)) \/ in_region(j, BRETAGNE_CITIES)

\* C11: a job whose contract is None or "" and that passes the locality gate
\* is in the result, whatever accept_contracts is; a job that passes the
\* locality gate and is not in the result carries a tag.
C11_UntaggedKept ==
    pc = "filter_ret" =>
        \A n \in 1..Len(call.jobs) :
            LocalityPasses(call.jobs[n], call.accept_remote) =>
                /\ ~ Truthy(call.jobs[n].contract) => call.jobs[n] \in SeqToSet(ret)
                /\ call.jobs[n] \notin SeqToSet(ret) => Truthy(call.jobs[n].contract)

\* with accept_contracts, a job without tag and without keyword in its
\* summary is kept, next to a tagged job that is dropped
C11_Witness ==
    /\ pc = "filter_ret" /\ call.accept_contracts
    /\ Len(call.jobs) = 2 /\ Len(ret) = 1
    /\ call.jobs[1].contract = <<t_Stage>>
    /\ call.jobs[2].contract \in {<<>>, << <<>> >>}
    /\ call.jobs[2].summary = <<>>
    /\ ret[1] = call.jobs[2]

\* C12 as stated: once main_loop has loaded the seen file (it always gets
\* past the load), the set it loaded is the stored ids when the file holds a
\* JSON array of strings, and is empty for any other file.
C12_LoadTotal ==
    pc \in LoopPcs \cup {"raised"} =>
        loaded = (IF file0.kind = "array" THEN file0.ids ELSE {})

\* C13: every step taken inside the loop keeps every id of the fingerprint
\* set; the ids it adds are exactly the ids of the jobs it appends to
\* all_new, and they are ids of jobs that passed the filter (and, in Phase B,
\* the re-check) in that cycle.
C13_Monotonic ==
    [][ (pc \in LoopPcs) =>
          ( /\ seen \subseteq seen'
            /\ seen' \ seen = { all_new'[n].id : n \in (Len(all_new) + 1)..Len(all_new') }
            /\ seen' \ seen \subseteq offered' ) ]_vars

\* the fingerprint set has grown by one id in each phase
C13_Witness ==
    /\ pc = "notify"
    /\ origin = <<"A", "B">>
    /\ seen = loaded \cup {"5d1f", "a07c"}
    /\ Cardinality(seen) = Cardinality(loaded) + 2

\* one of the three markers occurs, whatever the case, in the location or in
\* title + " " + summary
MarkerAnywhere(j) ==
    \E mk \in {s_teletravail_acc, s_teletravail, s_remote} :
        \/ Contains(mk, lower(j.location))
        \/ Contains(mk, lower(j.title \o <<" ">> \o j.summary))

\* C14 as stated: with accept_remote and without the contract gate, the
\* filter keeps a job exactly when it is in region or one of the three
\* markers occurs in its location or in its title/summary text.
C14_IsRemote ==
    (pc = "filter_ret" /\ call.accept_remote /\ ~ call.accept_contracts) =>
        \A n \in 1..Len(call.jobs) :
            call.jobs[n] \in SeqToSet(ret)
                <=> (MarkerAnywhere(call.jobs[n]) \/ in_region(call.jobs[n], BRETAGNE_CITIES))

\* 'télétravail' or 'remote' occurs, whatever the case, in the location or
\* in the summary
MarkerLocSummary(j) ==
    \E mk \in {s_teletravail_acc, s_remote} :
        Contains(mk, lower(j.location)) \/ Contains(mk, lower(j.summary))

\* C15: in the loop, every job that Phase B appended to all_new has
\* 'télétravail' or 'remote' in its location or summary.  For one iteration
\* of Phase B: every job collected is a candidate of the filter with such a
\* marker; an id is collected exactly when it is not in the fingerprint set
\* and a candidate with that id has such a marker, and then once; the
\* fingerprint set grows by the collected ids.
C15_PhaseBRecheck ==
    /\ \A n \in 1..Len(origin) : origin[n] = "B" => MarkerLocSummary(all_new[n])
    /\ pc = "remote_ret" =>
        /\ \A n \in 1..Len(ret.all_new) :
              /\ ret.all_new[n] \in SeqToSet(ret.candidates)
              /\ MarkerLocSummary(ret.all_new[n])
        /\ \A i \in Ids :
              (\E n \in 1..Len(ret.all_new) : ret.all_new[n].id = i)
                <=> /\ i \notin call.seen
                    /\ \E n \in 1..Len(ret.candidates) :
                          ret.candidates[n].id = i /\ MarkerLocSummary(ret.candidates[n])
        /\ \A m, n \in 1..Len(ret.all_new) :
              m # n => ret.all_new[m].id # ret.all_new[n].id
        /\ ret.seen = call.seen \cup { ret.all_new[n].id : n \in 1..Len(ret.all_new) }

\* the filter kept both jobs: the first, in region without marker, is left
\* out; the second, remote by its location, is collected
C15_Witness ==
    /\ pc = "remote_ret"
    /\ Len(call.jobs) = 2 /\ ret.candidates = call.jobs
    /\ call.jobs[1].location = t_Rennes /\ ~ MarkerLocSummary(call.jobs[1])
    /\ ret.all_new = << call.jobs[2] >>
    /\ call.jobs[2].location = t_TeletravailLoc

\* a call of parse_indeed_search for one page, answered 200 with fragments
OnePageCall ==
    /\ pc = "parse_ret"
    /\ call.max_pages = 1
    /\ call.responses[1].kind = "ok" /\ call.responses[1].status = 200
    /\ select_cards(call.responses[1]) # <<>>
HasLink(c) == card_href(c) # <<>> /\ card_href(c)[1] # ""
\* the fragments that have a link
Linked(cards) == SelectSeq(cards, HasLink)
\* the fragments that have a link, up to the first link urljoin raises on
RECURSIVE LinkedBeforeBad(_)
LinkedBeforeBad(cards) ==
    IF cards = <<>> THEN <<>>
    ELSE IF ~ HasLink(Head(cards)) THEN LinkedBeforeBad(Tail(cards))
    ELSE IF card_href(Head(cards))[1] \in BadHrefs THEN <<>>
    ELSE << Head(cards) >> \o LinkedBeforeBad(Tail(cards))
\* company, location and summary of the record r of fragment c are empty
\* when their sub-element is missing
EmptyWhenMissing(c, r) ==
    /\ r.link = urljoin(card_href(c)[1])
    /\ (c.companyName = <<>> /\ c.company = <<>>) => r.company = <<>>
    /\ (c.companyLocation = <<>> /\ c.location = <<>>) => r.location = <<>>
    /\ (c.job_snippet = <<>> /\ c.summary = <<>>) => r.summary = <<>>

KeywordOccurs(r) ==
    Contains(upper(CONTRACT_KEYWORDS[r]),
             upper(call.title \o <<" ">> \o call.company \o <<" ">> \o call.location
                   \o <<" ">> \o call.summary))

\* C17: the contract is unset when no keyword occurs in the four fields, and
\* is otherwise the keyword of lowest rank in CONTRACT_KEYWORDS that occurs.
C17_FirstMatchWins ==
    pc = "contract_ret" =>
        IF \E r \in 1..Len(CONTRACT_KEYWORDS) : KeywordOccurs(r)
        THEN \E r \in 1..Len(CONTRACT_KEYWORDS) :
                /\ KeywordOccurs(r)
                /\ \A m \in 1..(r - 1) : ~ KeywordOccurs(m)
                /\ ret = << CONTRACT_KEYWORDS[r] >>
        ELSE ret = <<>>

\* "contrat cdd" in the summary: Contrat comes first in the text, CDD comes
\* first in the list and is the contract
C17_Witness ==
    /\ pc = "contract_ret"
    /\ call.title = t_Saisie /\ call.company = <<>> /\ call.summary = t_ContratCdd
    /\ KeywordOccurs(2) /\ KeywordOccurs(5)
    /\ ret = << <<"C","D","D">> >>

\* C18: the ids in the seen file are ids of the file the run started with
\* or ids whose notification has been attempted (by this process or by an
\* earlier one); from the first search of a cycle to its save_seen, no id
\* collected in the cycle is in the file; after a stop, the ids that were
\* marked and not yet notified are not in the file.
C18_PersistAfterAttempts ==
    /\ file.ids \subseteq file0.ids \cup notifiedBefore \cup Attempted
    /\ pc \in {"phaseA", "phaseB", "notify", "save"} =>
          \A n \in 1..Len(all_new) : all_new[n].id \notin file.ids
    /\ pc = "stopped" => pendingAtStop \cap file.ids = {}

\* the process was stopped in the middle of the notifications of its second
\* cycle: the file holds the id of the first cycle, not the pending one
C18_Witness ==
    /\ pc = "stopped"
    /\ cycle = 2
    /\ pendingAtStop # {}
    /\ file.kind = "array" /\ file.ids # file0.ids
    /\ notifiedBefore # {}

\* on the jobs of a fetch the filter gives the same result with and without
\* accept_contracts, and keeps exactly the jobs that pass the locality gate
GateInertOn(jobs) ==
    \A ar \in BOOLEAN :
        /\ filter_by_region_and_contract(jobs, BRETAGNE_CITIES, TRUE, ar)
             = filter_by_region_and_contract(jobs, BRETAGNE_CITIES, FALSE, ar)
        /\ filter_by_region_and_contract(jobs, BRETAGNE_CITIES, TRUE, ar)
             = SelectSeq(jobs, LAMBDA j : LocalityPasses(j, ar))
\* every search main_loop can make
FetchedGateInert == \A r \in Fetched : GateInertOn(r.results)

\* C19: every job returned by parse_indeed_search has a contract that is
\* None or one of CONTRACT_KEYWORDS; on these jobs, and on the jobs of every
\* search of main_loop, the filter with accept_contracts gives what it gives
\* without, namely the jobs that pass the locality gate.
C19_GateInert ==
    /\ FetchedGateInert
    /\ pc = "parse_ret" =>
        /\ \A n \in 1..Len(ret.results) :
              \/ ret.results[n].contract = <<>>
              \/ ret.results[n].contract[1] \in SeqToSet(CONTRACT_KEYWORDS)
        /\ GateInertOn(ret.results)

\* a fetch returned a job with a contract and a job without: the first is
\* kept, the second is out of region and dropped, accept_contracts or not
C19_Witness ==
    /\ pc = "parse_ret"
    /\ Len(ret.results) = 2
    /\ ret.results[1].contract # <<>> /\ ret.results[2].contract = <<>>
    /\ filter_by_region_and_contract(ret.results, BRETAGNE_CITIES, TRUE, FALSE)
         = << ret.results[1] >>

\* the instances that have written the seen file
Writers == { p \in Instances : inst[p].wrote # <<>> }

\* C20: with two instances on one seen file, each instance loads the file
\* once, and its fingerprint set is what it loaded plus the ids it collected
\* itself, whatever the other instance wrote since; the file is the one the
\* run started with, a truncated one, or exactly the set of one instance at
\* its last save_seen.
C20_NotConcurrentSafe ==
    pc = "instances" =>
        /\ \A p \in Instances :
              /\ inst[p].loads <= 1
              /\ inst[p].seen = inst[p].loaded \cup inst[p].appended
        /\ file \in {file0, CorruptFile} \cup { ArrayFile(inst[p].wrote[1]) : p \in Writers }

\* both instances have written the file: the last write erased an id that
\* the other instance had persisted, and one posting was notified by both
C20_Witness ==
    /\ pc = "instances"
    /\ \E p, q \in Writers :
          /\ p # q
          /\ file = ArrayFile(inst[q].wrote[1])
          /\ inst[p].wrote[1] \ file.ids # {}
          /\ inst[p].attempted \cap inst[q].attempted # {}

====
